---- MODULE Spec2Model ----
(***************************************************************************)
(* hyprsonic.py: the in-process software mixer.                            *)
(*                                                                         *)
(* Event threads call enqueue_sound, which appends a voice to the shared   *)
(* list active_sounds under active_lock.  The audio thread drives the      *)
(* generator mixer_generator: each resumption with required_frames mixes   *)
(* every voice into acc under the lock, removes the finished voices under  *)
(* a second acquisition of the lock, clips acc to int16 and yields it.     *)
(*                                                                         *)
(* A voice is the dict {"samples","pos","vol","nframes"}; here a record    *)
(* [id, asset, pos, vol]: id is the identity of the dict object, asset     *)
(* names the decoded sound whose samples the dict references, and vol is   *)
(* the float volume counted in halves (vol = 2 is 1.0, 1 is 0.5), which    *)
(* keeps sample * vol exact as it is in double precision.                  *)
(***************************************************************************)
EXTENDS Integers, Sequences, FiniteSets, TLC

\* ----------------- Configuration -----------------
OUT_CHANNELS == 2
max_amp == 32767
min_amp == -32768

\* Bound of the model: how many enqueue_sound calls the event threads make in
\* total during one run.
MaxCalls == 3

\* The threads that call enqueue_sound.
Threads == {1, 2}
\* Who holds active_lock: an event thread, the audio thread, or nobody.
Event(t) == <<"event", t>>
Audio == <<"audio", 0>>
NoThread == <<"none", 0>>

\* ----------------- Preloaded sounds -----------------
\* load_sound returns the decoded interleaved int16 samples; the files are
\* inputs, so the model fixes a few sounds: an empty one, one frame of
\* near-full-scale positive and of negative samples, a three-frame sound
\* with odd values and a ten-frame sound.  Every sound has OUT_CHANNELS
\* samples per frame, as decode_file is asked to produce.
Samples(asset) ==
  CASE asset = "zero" -> << >>
    [] asset = "loud" -> <<32000, 32000>>
    [] asset = "neg"  -> <<-32000, -32000>>
    [] asset = "odd"  -> <<3, -3, 7, -7, 5, -5>>
    [] asset = "ten"  -> [i \in 1..20 |-> i]

nframes(asset) == Len(Samples(asset)) \div OUT_CHANNELS

\* What one run of the program is given: the (sound, volume) pairs the event
\* threads enqueue and the frame counts the playback device asks for.
Configs ==
  { [kinds |-> {<<"loud", 2>>, <<"neg", 2>>}, frames |-> {1}],
    [kinds |-> {<<"zero", 2>>, <<"loud", 2>>}, frames |-> {0, 1}],
    [kinds |-> {<<"odd", 2>>, <<"odd", 1>>}, frames |-> {2}],
    [kinds |-> {<<"ten", 2>>}, frames |-> {4}],
    [kinds |-> {<<"odd", 0>>, <<"loud", 2>>}, frames |-> {2}],
    [kinds |-> {<<"neg", -2>>}, frames |-> {1}] }

VARIABLES
  cfg,              \* the run's inputs (constant during the run)
  active_sounds,    \* the shared list of voices
  active_lock,      \* the thread holding active_lock, or NoThread
  epc,              \* per event thread: position inside enqueue_sound
  earg,             \* per event thread: the (dsf, volume) of its call
  calls,            \* per event thread: enqueue_sound calls made so far
  apc,              \* audio thread: position inside mixer_generator
  required_frames,  \* value received by the last yield
  acc,              \* accumulation buffer
  remove_list,      \* voices marked finished in the mixing section
  idx,              \* position of `for s in active_sounds`
  ridx,             \* position of `for r in remove_list`
  out,              \* buffer passed to the last yield
  snap,             \* history: active_sounds when this step's mixing section began
  played,           \* history: per voice id, the sample indices mixed so far
  removed           \* history: the voices removed from active_sounds

vars == <<cfg, active_sounds, active_lock, epc, earg, calls, apc,
          required_frames, acc, remove_list, idx, ridx, out, snap, played,
          removed>>

evars == <<epc, earg, calls>>
avars == <<apc, required_frames, acc, remove_list, idx, ridx, out, snap>>

NoArg == <<"zero", 0>>

RECURSIVE SumOver(_, _)
SumOver(f, S) ==
  IF S = {} THEN 0
  ELSE LET x == CHOOSE y \in S : TRUE IN f[x] + SumOver(f, S \ {x})

TotalCalls == SumOver(calls, Threads)

\* ----------------- Helpers -----------------
Zeros_Stale(n) == IF Len(out) = n THEN out ELSE [i \in 1..n |-> 0]
Zeros(n) == [i \in 1..n |-> 0]

\* int(x / 2) as Python's int() of a float: truncation toward zero.
TruncHalf(x) == IF x >= 0 THEN x \div 2 ELSE -((-x) \div 2)

\* int(chunk[i] * vol), line 145
Scale_DefaultVol(sample, vol) ==
  TruncHalf(sample * (IF vol = 0 THEN 2 ELSE vol))
Scale(sample, vol) == TruncHalf(sample * vol)

\* acc[i] += ..., line 145
AccAdd_Assign(a, b) == b
AccAdd(a, b) == a + b

\* take = want if available >= want else available, line 138
Take_AllWhenZero(want, available) ==
  IF want = 0 THEN available
  ELSE IF available >= want THEN want ELSE available
Take(want, available) == IF available >= want THEN want ELSE available

\* s["pos"] += take, line 146
Advance_Frames(pos, take) == pos + take \div OUT_CHANNELS
Advance(pos, take) == pos + take

\* s["pos"] >= len(s["samples"]), line 148
Finished_Started(s) == s.pos > 0
Finished(s) == s.pos >= Len(Samples(s.asset))

\* Equality of two voice dicts: key by key, the arrays by value.
VoiceEq(a, b) ==
  /\ Samples(a.asset) = Samples(b.asset)
  /\ a.pos = b.pos
  /\ a.vol = b.vol
  /\ nframes(a.asset) = nframes(b.asset)

\* list.__contains__ / list.remove compare by identity, then by ==.
Matches(x, r) == x.id = r.id \/ VoiceEq(x, r)

Contains(list, r) == \E j \in 1..Len(list) : Matches(list[j], r)

FirstMatch(list, r) ==
  CHOOSE j \in 1..Len(list) :
    /\ Matches(list[j], r)
    /\ \A k \in 1..(j - 1) : ~Matches(list[k], r)

\* `if r in active_sounds: active_sounds.remove(r)`, line 154
RemoveVoice_Keep(list, r) == list
RemoveVoice_AllEqual(list, r) == SelectSeq(list, LAMBDA x : ~Matches(x, r))
RemoveVoice(list, r) ==
  IF Contains(list, r)
  THEN LET j == FirstMatch(list, r)
       IN  SubSeq(list, 1, j - 1) \o SubSeq(list, j + 1, Len(list))
  ELSE list

\* the clip of one accumulated value, lines 159-163
Clip_Wrap(v) == ((v - min_amp) % 65536) + min_amp
Clip(v) == IF v > max_amp THEN max_amp ELSE IF v < min_amp THEN min_amp ELSE v

\* out_arr, lines 157-163
ClipBuffer_Trim(a) ==
  LET nz == {i \in 1..Len(a) : a[i] # 0}
      last == IF nz = {} THEN 0 ELSE CHOOSE i \in nz : \A j \in nz : j <= i
  IN  [i \in 1..last |-> Clip(a[i])]
ClipBuffer(a) == [i \in 1..Len(a) |-> Clip(a[i])]

\* `with active_lock:` may enter when no thread holds the lock
LockFree_Always(l) == TRUE
LockFree(l) == l = NoThread

\* `with active_lock:` exit by the thread `holder`: the lock afterwards
Release_Leak(holder) == holder
Release(holder) == NoThread

\* the dict built by enqueue_sound(dsf, volume), lines 104-109; arg is the
\* pair (dsf, volume) and id the identity of the new dict
NewVoice_AtEnd(id, arg) ==
  [id |-> id, asset |-> arg[1], pos |-> nframes(arg[1]), vol |-> arg[2]]
NewVoice(id, arg) ==
  [id |-> id, asset |-> arg[1], pos |-> 0, vol |-> arg[2]]

\* One iteration of `for s in active_sounds`, lines 131-146, on voice s with
\* accumulator a: the new voice and the new accumulator.
MixOne_SharedCursor(s, a, frames) ==
  LET samples   == Samples(s.asset)
      same      == {active_sounds[j].pos : j \in
                      {k \in 1..Len(active_sounds) :
                         active_sounds[k].asset = s.asset}} \cup {s.pos}
      cursor    == CHOOSE c \in same : \A d \in same : d <= c
      want      == frames * OUT_CHANNELS
      available == Len(samples) - cursor
      take      == Take(want, available)
  IN  IF take > 0
      THEN [voice |-> [s EXCEPT !.pos = Advance(cursor, take)],
            acc   |-> [i \in 1..Len(a) |->
                         IF i <= take
                         THEN AccAdd(a[i], Scale(samples[cursor + i], s.vol))
                         ELSE a[i]],
            take  |-> take]
      ELSE [voice |-> [s EXCEPT !.pos = cursor], acc |-> a, take |-> 0]
MixOne(s, a, frames) ==
  LET samples   == Samples(s.asset)
      want      == frames * OUT_CHANNELS
      available == Len(samples) - s.pos
      take      == Take(want, available)
  IN  IF take > 0
      THEN [voice |-> [s EXCEPT !.pos = Advance(s.pos, take)],
            acc   |-> [i \in 1..Len(a) |->
                         IF i <= take
                         THEN AccAdd(a[i], Scale(samples[s.pos + i], s.vol))
                         ELSE a[i]],
            take  |-> take]
      ELSE [voice |-> s, acc |-> a, take |-> 0]

\* ----------------- Initial state -----------------
Init ==
  /\ cfg \in Configs
  /\ active_sounds = << >>
  /\ active_lock = NoThread
  /\ epc = [t \in Threads |-> "idle"]
  /\ earg = [t \in Threads |-> NoArg]
  /\ calls = [t \in Threads |-> 0]
  /\ apc = "yield"
  /\ required_frames = 0
  /\ acc = << >>
  /\ remove_list = << >>
  /\ idx = 1
  /\ ridx = 1
  /\ out = << >>
  /\ snap = << >>
  /\ played = << >>
  /\ removed = {}

\* ----------------- enqueue_sound (event threads) -----------------
\* The evdev loop calls enqueue_sound(dsf, volume).
Call(t) ==
  /\ epc[t] = "idle"
  /\ TotalCalls < MaxCalls
  /\ \E k \in cfg.kinds : earg' = [earg EXCEPT ![t] = k]
  /\ epc' = [epc EXCEPT ![t] = "lock"]
  /\ calls' = [calls EXCEPT ![t] = @ + 1]
  /\ UNCHANGED <<cfg, active_sounds, active_lock, avars, played, removed>>

\* `with active_lock:` entry, line 103
EnqueueAcquire(t) ==
  /\ epc[t] = "lock"
  /\ LockFree(active_lock)
  /\ active_lock' = Event(t)
  /\ epc' = [epc EXCEPT ![t] = "append"]
  /\ UNCHANGED <<cfg, active_sounds, earg, calls, avars, played, removed>>

\* active_sounds.append({...}), lines 104-109
EnqueueAppend(t) ==
  /\ epc[t] = "append"
  /\ active_sounds' = Append(active_sounds, NewVoice(Len(played) + 1, earg[t]))
  /\ played' = Append(played, << >>)
  /\ epc' = [epc EXCEPT ![t] = "unlock"]
  /\ UNCHANGED <<cfg, active_lock, earg, calls, avars, removed>>

\* `with active_lock:` exit and return
EnqueueRelease(t) ==
  /\ epc[t] = "unlock"
  /\ active_lock' = Release(Event(t))
  /\ epc' = [epc EXCEPT ![t] = "idle"]
  /\ earg' = [earg EXCEPT ![t] = NoArg]
  /\ UNCHANGED <<cfg, active_sounds, calls, avars, played, removed>>

\* ----------------- mixer_generator (audio thread) -----------------
\* The device resumes the generator with the number of frames it wants;
\* lines 127-128 build acc and remove_list.
Produce(n) ==
  /\ apc = "yield"
  /\ required_frames' = n
  /\ acc' = Zeros(n * OUT_CHANNELS)
  /\ remove_list' = << >>
  /\ snap' = << >>
  /\ apc' = "mix_lock"
  /\ UNCHANGED <<cfg, active_sounds, active_lock, evars, idx, ridx, out, played,
                 removed>>

\* `with active_lock:` entry, line 129
MixAcquire ==
  /\ apc = "mix_lock"
  /\ LockFree(active_lock)
  /\ active_lock' = Audio
  /\ idx' = 1
  /\ snap' = active_sounds
  /\ apc' = "mix"
  /\ UNCHANGED <<cfg, active_sounds, evars, required_frames, acc, remove_list,
                 ridx, out, played, removed>>

\* one iteration of the loop of lines 130-149
MixVoice ==
  /\ apc = "mix"
  /\ idx <= Len(active_sounds)
  /\ LET s == active_sounds[idx]
         m == MixOne(s, acc, required_frames)
     IN  /\ active_sounds' = [active_sounds EXCEPT ![idx] = m.voice]
         /\ acc' = m.acc
         /\ played' = [played EXCEPT ![s.id] =
                         @ \o [i \in 1..m.take |-> s.pos + i]]
         /\ remove_list' = IF Finished(m.voice)
                           THEN Append(remove_list, m.voice)
                           ELSE remove_list
  /\ idx' = idx + 1
  /\ UNCHANGED <<cfg, active_lock, evars, apc, required_frames, ridx, out, snap,
                 removed>>

\* the loop ends: `with active_lock:` exit, then `if remove_list:`, line 151
MixRelease ==
  /\ apc = "mix"
  /\ idx > Len(active_sounds)
  /\ active_lock' = Release(Audio)
  /\ idx' = 1
  /\ apc' = IF remove_list # << >> THEN "rm_lock" ELSE "clip"
  /\ UNCHANGED <<cfg, active_sounds, evars, required_frames, acc, remove_list,
                 ridx, out, snap, played, removed>>

\* `with active_lock:` entry, line 152
RemoveAcquire ==
  /\ apc = "rm_lock"
  /\ LockFree(active_lock)
  /\ active_lock' = Audio
  /\ ridx' = 1
  /\ apc' = "rm"
  /\ UNCHANGED <<cfg, active_sounds, evars, required_frames, acc, remove_list,
                 idx, out, snap, played, removed>>

\* one iteration of the loop of lines 153-154
RemoveOne ==
  /\ apc = "rm"
  /\ ridx <= Len(remove_list)
  /\ LET r == remove_list[ridx]
     IN  /\ active_sounds' = RemoveVoice(active_sounds, r)
         /\ removed' = removed \cup
              {active_sounds[j] : j \in {k \in 1..Len(active_sounds) :
                 \A i \in 1..Len(active_sounds') :
                    active_sounds'[i].id # active_sounds[k].id}}
  /\ ridx' = ridx + 1
  /\ UNCHANGED <<cfg, active_lock, evars, apc, required_frames, acc, remove_list,
                 idx, out, snap, played>>

\* the loop ends: `with active_lock:` exit
RemoveRelease ==
  /\ apc = "rm"
  /\ ridx > Len(remove_list)
  /\ active_lock' = Release(Audio)
  /\ ridx' = 1
  /\ apc' = "clip"
  /\ UNCHANGED <<cfg, active_sounds, evars, required_frames, acc, remove_list,
                 idx, out, snap, played, removed>>

\* lines 157-165: clip acc into out_arr and yield it
ClipAndYield ==
  /\ apc = "clip"
  /\ out' = ClipBuffer(acc)
  /\ apc' = "yield"
  /\ UNCHANGED <<cfg, active_sounds, active_lock, evars, required_frames, acc,
                 remove_list, idx, ridx, snap, played, removed>>

EventStep(t) ==
  \/ Call(t)
  \/ EnqueueAcquire(t)
  \/ EnqueueAppend(t)
  \/ EnqueueRelease(t)

AudioStep ==
  \/ \E n \in cfg.frames : Produce(n)
  \/ MixAcquire
  \/ MixVoice
  \/ MixRelease
  \/ RemoveAcquire
  \/ RemoveOne
  \/ RemoveRelease
  \/ ClipAndYield

Next ==
  \/ \E t \in Threads : EventStep(t)
  \/ AudioStep

Spec == Init /\ [][Next]_vars

\* Fair scheduling: the audio thread runs whenever it can, an event thread
\* waiting for the lock gets it when the lock is free again and again, and
\* the playback device keeps asking for a positive number of frames.
ProducePositive == \E n \in cfg.frames \ {0} : Produce(n)

FairSpec ==
  /\ Spec
  /\ \A t \in Threads : SF_vars(EventStep(t))
  /\ WF_vars(AudioStep)
  /\ SF_vars(ProducePositive)

\* ----------------- One produce step as a function -----------------
\* The loop of lines 130-149 from position k on, without interruption.
RECURSIVE MixFrom(_, _, _, _, _)
MixFrom(list, k, a, marked, frames) ==
  IF k > Len(list) THEN [list |-> list, acc |-> a, remove_list |-> marked]
  ELSE LET m == MixOne(list[k], a, frames)
       IN  MixFrom([list EXCEPT ![k] = m.voice], k + 1, m.acc,
                   IF Finished(m.voice) THEN Append(marked, m.voice) ELSE marked,
                   frames)

\* The loop of lines 153-154.
RECURSIVE RemoveAll(_, _)
RemoveAll(list, marked) ==
  IF marked = << >> THEN list
  ELSE RemoveAll(RemoveVoice(list, Head(marked)), Tail(marked))

\* Lines 127-165 run on the list `list`: the buffer yielded and the list left.
ProduceStep(list, frames) ==
  LET m == MixFrom(list, 1, Zeros(frames * OUT_CHANNELS), << >>, frames)
  IN  [out |-> ClipBuffer(m.acc), rest |-> RemoveAll(m.list, m.remove_list)]

\* ----------------- Properties -----------------
Live == {active_sounds[j] : j \in 1..Len(active_sounds)}
AllVoices == Live \cup removed
SampleCount(v) == Len(Samples(v.asset))
Want == required_frames * OUT_CHANNELS

\* C1: every voice of active_sounds has 0 <= pos <= len(samples), and the
\* number of samples the mixer has taken from a voice since it was spawned
\* never exceeds len(samples).
C1_NoOverRead ==
  /\ \A v \in Live : 0 <= v.pos /\ v.pos <= SampleCount(v)
  /\ \A v \in AllVoices : Len(played[v.id]) <= SampleCount(v)

\* A voice read to its end in several steps, still listed, while the audio
\* thread waits for the lock of the removal section.
C1_Witness ==
  /\ apc = "rm_lock"
  /\ \E v \in Live :
       /\ v.pos = SampleCount(v)
       /\ SampleCount(v) > Want
       /\ Len(played[v.id]) = SampleCount(v)
  /\ \E v \in Live : 0 < v.pos /\ v.pos < SampleCount(v)

\* C2: a thread reads or writes active_sounds only while it holds
\* active_lock, at most one thread is inside a `with active_lock:` block, and
\* no event thread appends while the audio thread iterates or removes.
EventInside(t) == epc[t] \in {"append", "unlock"}
AudioInside == apc \in {"mix", "rm"}

C2_NoRace ==
  /\ \A t \in Threads : EventInside(t) => active_lock = Event(t)
  /\ AudioInside => active_lock = Audio
  /\ \A t, u \in Threads : EventInside(t) /\ EventInside(u) => t = u
  /\ \A t \in Threads : ~(epc[t] = "append" /\ AudioInside)

\* enqueue_sound in progress during a produce step: one thread appends while
\* the audio thread, between its two sections, and the other thread wait.
C2_Witness ==
  /\ apc = "rm_lock"
  /\ \E t, u \in Threads : t # u /\ epc[t] = "append" /\ epc[u] = "lock"

\* C4: the audio thread never waits for active_lock inside a produce step:
\* in no state is it at a `with active_lock:` entry while an event thread
\* holds the lock.
C4_AudioNeverWaits ==
  ~(/\ apc \in {"mix_lock", "rm_lock"}
    /\ \E t \in Threads : active_lock = Event(t))

\* The sum of the contributions of the voices of the step at offset i.
RECURSIVE ContribSum(_, _)
ContribSum(voices, i) ==
  IF voices = << >> THEN 0
  ELSE LET v == Head(voices)
       IN  (IF v.pos + i <= SampleCount(v)
            THEN Scale(Samples(v.asset)[v.pos + i], v.vol) ELSE 0)
           + ContribSum(Tail(voices), i)

Saturated(x) == IF x > 32767 THEN 32767 ELSE IF x < -32768 THEN -32768 ELSE x

\* C5: every sample of the yielded buffer is the sum of the live voices'
\* contributions at that offset, saturated to [-32768, 32767].
C5_Saturates ==
  apc = "yield" =>
    \A i \in 1..Len(out) : out[i] = Saturated(ContribSum(snap, i))

\* Three overlapping voices of constant 32000 at volume 1.0 yield 32767.
C5_Witness ==
  /\ apc = "yield"
  /\ Len(snap) = 3
  /\ \A j \in 1..3 : snap[j].asset = "loud" /\ snap[j].vol = 2 /\ snap[j].pos = 0
  /\ out = <<32767, 32767>>

\* C6: a voice is removed from active_sounds only when its pos equals
\* len(samples), and a removed voice is not in the list nor mixed again: its
\* samples were each mixed once, in order, and that record never grows.
C6_RemovedOnlyWhenDone ==
  \A v \in removed :
    /\ v.pos = SampleCount(v)
    /\ played[v.id] = [i \in 1..SampleCount(v) |-> i]
    /\ \A w \in Live : w.id # v.id

\* A voice was removed after playing its samples while another one, part way
\* through its samples, stays.
C6_Witness ==
  /\ \E v \in removed : SampleCount(v) > 0
  /\ \E w \in Live : 0 < w.pos /\ w.pos < SampleCount(w)

\* C3: under fair scheduling every enqueue_sound call inserts one voice, every
\* voice is mixed from its first sample to its last, each sample once, and is
\* then removed: in the end all MaxCalls voices were played and the list is
\* empty.
NoSampleTwice ==
  \A id \in 1..Len(played) :
    \A i, j \in 1..Len(played[id]) : played[id][i] = played[id][j] => i = j

AllPlayed ==
  /\ Len(played) = MaxCalls
  /\ TotalCalls = MaxCalls
  /\ active_sounds = << >>
  /\ Cardinality({v.id : v \in removed}) = MaxCalls
  /\ \A v \in removed : played[v.id] = [i \in 1..SampleCount(v) |-> i]

C3_AllPlayed == []NoSampleTwice /\ <>[]AllPlayed

\* Both threads made calls, and every voice was played and removed.
C3_Witness ==
  /\ AllPlayed
  /\ \A t \in Threads : calls[t] > 0
  /\ \E v \in removed : SampleCount(v) > Want /\ Want > 0

\* The voices of this step's mixing section and those of them that are at
\* their end.
SnapIds == {snap[j].id : j \in 1..Len(snap)}
FinishedInStep == {v \in AllVoices : v.id \in SnapIds /\ v.pos = SampleCount(v)}

\* C7: when a produce step yields its buffer, every voice whose pos reached
\* len(samples) in the step is out of active_sounds for good, and the list is
\* shorter by exactly the number of those voices, the voices appended during
\* the step aside.
C7_FinishedAreGone ==
  apc = "yield" =>
    /\ \A v \in FinishedInStep : v \in removed /\ \A w \in Live : w.id # v.id
    /\ Cardinality({w \in Live : w.id \in SnapIds})
         = Len(snap) - Cardinality({v.id : v \in FinishedInStep})

\* A step over two voices in which one finished and one did not, and a voice
\* was appended meanwhile.
C7_Witness ==
  /\ apc = "yield"
  /\ Cardinality({v.id : v \in FinishedInStep}) = 1
  /\ Len(snap) = 2
  /\ \E w \in Live : w.id \notin SnapIds
  /\ \E w \in Live : w.id \in SnapIds

Min(a, b) == IF a <= b THEN a ELSE b
TakenInStep(v) == Len(played[v.id]) - v.pos

\* C8: the yielded buffer has required_frames * channels samples and each
\* voice gives min(want, remaining) samples to it; a voice alone at volume
\* 1.0 fills the leading offsets with its remaining samples and the rest is
\* zeros; with the ten-frame sound and 4 frames per step the takes are 8, 8
\* and 4 and the third buffer is the last two frames then two frames of zeros.
C8_BufferLength ==
  apc = "yield" =>
    /\ Len(out) = Want
    /\ \A j \in 1..Len(snap) :
         TakenInStep(snap[j]) = Min(Want, SampleCount(snap[j]) - snap[j].pos)
    /\ (Len(snap) = 1 /\ snap[1].vol = 2) =>
         \A i \in 1..Want :
           out[i] = IF snap[1].pos + i <= SampleCount(snap[1])
                    THEN Samples(snap[1].asset)[snap[1].pos + i] ELSE 0
    /\ \A j \in 1..Len(snap) :
         (snap[j].asset = "ten" /\ required_frames = 4) =>
           /\ snap[j].pos \in {0, 8, 16}
           /\ TakenInStep(snap[j]) = (IF snap[j].pos = 16 THEN 4 ELSE 8)
           /\ (snap[j].pos = 16 /\ Len(snap) = 1) =>
                out = <<17, 18, 19, 20, 0, 0, 0, 0>>

\* The third produce(4) of a single ten-frame voice.
C8_Witness ==
  /\ apc = "yield"
  /\ required_frames = 4
  /\ Len(snap) = 1 /\ snap[1].asset = "ten" /\ snap[1].pos = 16
  /\ out = <<17, 18, 19, 20, 0, 0, 0, 0>>
  /\ active_sounds = << >>

\* C9: a produce step with required_frames = 0 yields an empty buffer and
\* leaves the pos of every voice as it was.
C9_ZeroFrames ==
  required_frames = 0 =>
    /\ apc = "yield" => out = << >>
    /\ \A j \in 1..Len(snap) :
         \A v \in AllVoices : v.id = snap[j].id => v.pos = snap[j].pos

\* A step of zero frames over a list that holds a voice with samples left.
C9_Witness ==
  /\ apc = "yield"
  /\ required_frames = 0
  /\ out = << >>
  /\ \E j \in 1..Len(snap) :
       /\ SampleCount(snap[j]) > 0
       /\ snap[j] \in Live

Perms(n) == {p \in [1..n -> 1..n] : \A i, j \in 1..n : p[i] = p[j] => i = j}
Permuted(list, p) == [i \in 1..Len(list) |-> list[p[i]]]
SetOf(list) == {list[j] : j \in 1..Len(list)}

\* C10: the buffer of a produce step and the voices it leaves do not depend
\* on the order of active_sounds: the step just done gave what it gives on
\* every permutation of the list it ran on, and so will the next one.
C10_OrderIndependent ==
  apc = "yield" =>
    /\ \A p \in Perms(Len(snap)) :
         LET r == ProduceStep(Permuted(snap, p), required_frames)
         IN  /\ r.out = out
             /\ SetOf(r.rest) = {w \in Live : w.id \in SnapIds}
    /\ \A n \in cfg.frames : \A p \in Perms(Len(active_sounds)) :
         LET r == ProduceStep(Permuted(active_sounds, p), n)
             q == ProduceStep(active_sounds, n)
         IN  r.out = q.out /\ SetOf(r.rest) = SetOf(q.rest)

\* A step over three voices, two loud and one negative, whose sum passes
\* the clipping range in some orders only.
C10_Witness ==
  /\ apc = "yield"
  /\ Len(snap) = 3
  /\ \E p \in Perms(3) :
       /\ snap[p[1]].asset = "loud" /\ snap[p[2]].asset = "loud"
       /\ snap[p[3]].asset = "neg"
  /\ \A j \in 1..3 : snap[j].pos = 0 /\ snap[j].vol = 2
  /\ out = <<32000, 32000>>

WithoutSilent(list) == SelectSeq(list, LAMBDA v : v.vol # 0)

\* C11: a voice with volume 0 adds nothing: the yielded buffer is the one the
\* step gives on the list without the volume-0 voices (all zeros when there is
\* no other voice), while the volume-0 voice still advances by its take and
\* is removed once at its end.
C11_ZeroGainSilent ==
  apc = "yield" =>
    /\ out = ProduceStep(WithoutSilent(snap), required_frames).out
    /\ (\A j \in 1..Len(snap) : snap[j].vol = 0) =>
         \A i \in 1..Len(out) : out[i] = 0
    /\ \A j \in 1..Len(snap) :
         snap[j].vol = 0 =>
           /\ TakenInStep(snap[j])
                = Min(Want, SampleCount(snap[j]) - snap[j].pos)
           /\ Len(played[snap[j].id]) = SampleCount(snap[j]) =>
                /\ \A w \in Live : w.id # snap[j].id
                /\ \E v \in removed : v.id = snap[j].id

\* A step over a volume-0 voice on its last samples and a loud voice: the
\* buffer is the loud voice's alone and the volume-0 voice is removed.
C11_Witness ==
  /\ apc = "yield"
  /\ Len(snap) = 2
  /\ \E j \in 1..2 :
       /\ snap[j].vol = 0 /\ snap[j].asset = "odd" /\ snap[j].pos = 4
       /\ \E v \in removed : v.id = snap[j].id
  /\ \E j \in 1..2 : snap[j].asset = "loud" /\ snap[j].pos = 0
  /\ out = <<32000, 32000, 0, 0>>

\* C12: the append of enqueue_sound adds one voice with pos = 0 at the end of
\* active_sounds and changes no other entry; the other steps of enqueue_sound
\* leave the list alone; a step of mixer_generator inserts nothing, keeps
\* sound and volume of every voice, only moves pos forward, and drops only
\* voices whose pos is len(samples).
AppendStep == \E t \in Threads : epc[t] = "append" /\ epc'[t] = "unlock"

C12_Effect ==
  IF AppendStep
  THEN /\ Len(active_sounds') = Len(active_sounds) + 1
       /\ SubSeq(active_sounds', 1, Len(active_sounds)) = active_sounds
       /\ active_sounds'[Len(active_sounds')].pos = 0
       /\ \A k \in 1..Len(active_sounds) :
            active_sounds[k].id # active_sounds'[Len(active_sounds')].id
       /\ removed' = removed
  ELSE IF epc' # epc
  THEN active_sounds' = active_sounds /\ removed' = removed
  ELSE /\ \A j \in 1..Len(active_sounds') :
            \E k \in 1..Len(active_sounds) :
               /\ active_sounds[k].id = active_sounds'[j].id
               /\ active_sounds[k].asset = active_sounds'[j].asset
               /\ active_sounds[k].vol = active_sounds'[j].vol
               /\ active_sounds[k].pos <= active_sounds'[j].pos
       /\ \A k \in 1..Len(active_sounds) :
            (\A j \in 1..Len(active_sounds') :
                active_sounds'[j].id # active_sounds[k].id)
              => active_sounds[k].pos = SampleCount(active_sounds[k])

C12_FrameEffects == [][C12_Effect]_vars

\* enqueue_sound has just appended to a list that holds a voice part way
\* through its samples, between two produce steps' sections.
C12_Witness ==
  /\ \E t \in Threads : epc[t] = "unlock"
  /\ Len(active_sounds) >= 2
  /\ active_sounds[Len(active_sounds)].pos = 0
  /\ 0 < active_sounds[1].pos /\ active_sounds[1].pos < SampleCount(active_sounds[1])
  /\ apc = "rm_lock"

\* C13: every voice in active_sounds when a produce step enters its mixing
\* section is mixed in that step, a new one from sample 0; no voice is
\* appended during the mixing section; a voice appended after it keeps
\* pos = 0, unmixed, until the next step.
C13_EligibleNextStep ==
  /\ apc = "mix" => \A w \in Live : w.id \in SnapIds
  /\ apc \in {"rm_lock", "rm", "clip", "yield"} =>
       /\ \A j \in 1..Len(snap) :
            played[snap[j].id] =
              [i \in 1..(snap[j].pos
                         + Min(Want, SampleCount(snap[j]) - snap[j].pos)) |-> i]
       /\ \A w \in Live :
            w.id \notin SnapIds => w.pos = 0 /\ played[w.id] = << >>

\* A step mixed a voice appended before its mixing section from sample 0,
\* and a voice appended between the mixing and the removal section waits.
C13_Witness ==
  /\ apc = "rm"
  /\ Want > 0
  /\ \E j \in 1..Len(snap) : snap[j].pos = 0 /\ Len(played[snap[j].id]) = Want
  /\ \E w \in Live : w.id \notin SnapIds /\ w.pos = 0 /\ SampleCount(w) > 0

\* C14: no voice of active_sounds has a negative volume: enqueue_sound
\* rejects a negative volume or clamps it to 0.
C14_GainNonNegative == \A v \in Live : v.vol >= 0

\* round(x / 2) to the nearest integer, halves to the even neighbour, as
\* Python's round does.
RoundHalf(x) ==
  IF x % 2 = 0 THEN x \div 2
  ELSE IF (x \div 2) % 2 = 0 THEN x \div 2 ELSE (x \div 2) + 1

RECURSIVE RoundedSum(_, _)
RoundedSum(voices, i) ==
  IF voices = << >> THEN 0
  ELSE LET v == Head(voices)
       IN  (IF v.pos + i <= SampleCount(v)
            THEN RoundHalf(Samples(v.asset)[v.pos + i] * v.vol) ELSE 0)
           + RoundedSum(Tail(voices), i)

\* C15: in a produce step each voice gives take = min(want, len - pos)
\* samples, pos advances by take, and the value added at offset i is
\* round(samples[pos + i] * vol), rounded to nearest.
C15_RoundedContribution ==
  apc = "yield" =>
    /\ \A j \in 1..Len(snap) :
         TakenInStep(snap[j]) = Min(Want, SampleCount(snap[j]) - snap[j].pos)
    /\ \A i \in 1..Len(out) : out[i] = Saturated(RoundedSum(snap, i))

\* What voice v, at the position it had when the step began, gives at offset i.
OwnSlice(v, i) ==
  IF i <= Min(Want, SampleCount(v) - v.pos)
  THEN Scale(Samples(v.asset)[v.pos + i], v.vol) ELSE 0

RECURSIVE OwnSliceSum(_, _)
OwnSliceSum(voices, i) ==
  IF voices = << >> THEN 0
  ELSE OwnSlice(Head(voices), i) + OwnSliceSum(Tail(voices), i)

C16_State ==
  apc = "yield" =>
    /\ \A j \in 1..Len(snap) :
         LET take == Min(Want, SampleCount(snap[j]) - snap[j].pos)
         IN  /\ played[snap[j].id] = [i \in 1..(snap[j].pos + take) |-> i]
             /\ \A v \in AllVoices :
                  v.id = snap[j].id => v.pos = snap[j].pos + take
    /\ \A i \in 1..Len(out) : out[i] = Saturated(OwnSliceSum(snap, i))

C16_Step ==
  (apc = "mix" /\ idx' = idx + 1) =>
    /\ Len(active_sounds') = Len(active_sounds)
    /\ \A k \in 1..Len(active_sounds) :
         k # idx => active_sounds'[k] = active_sounds[k]

\* C16: voices that reference the same sound are independent: an iteration
\* of the mixing loop changes the pos of its own voice only, and each voice
\* gives samples[pos : pos + take] of the sound from its own pos, whatever
\* the pos of the others.  (The samples themselves are never assigned to.)
C16_IndependentVoices == []C16_State /\ [][C16_Step]_vars

\* A step over two voices of the same sound at different positions.
C16_Witness ==
  /\ apc = "yield"
  /\ Len(snap) = 2
  /\ snap[1].asset = snap[2].asset
  /\ snap[1].vol = 2 /\ snap[2].vol = 2
  /\ snap[1].pos = 4 /\ snap[2].pos = 0
  /\ out = <<8, -8, 7, -7>>

WithoutEmpty(list) == SelectSeq(list, LAMBDA v : SampleCount(v) > 0)

\* C17: a voice of a sound with zero frames gives no sample to any buffer and
\* is removed by the first produce step whose mixing section runs after its
\* append, whatever required_frames is.
C17_EmptySoundRemoved ==
  apc \in {"clip", "yield"} =>
    /\ \A j \in 1..Len(snap) :
         SampleCount(snap[j]) = 0 =>
           /\ played[snap[j].id] = << >>
           /\ \E v \in removed : v.id = snap[j].id
           /\ \A w \in Live : w.id # snap[j].id
    /\ ClipBuffer(acc) = ProduceStep(WithoutEmpty(snap), required_frames).out

\* A step of zero frames removed an empty-sound voice, kept a loud one, and
\* an empty-sound voice appended during the step waits for the next step.
C17_Witness ==
  /\ apc = "yield"
  /\ required_frames = 0
  /\ \E j \in 1..Len(snap) :
       SampleCount(snap[j]) = 0 /\ \E v \in removed : v.id = snap[j].id
  /\ \E j \in 1..Len(snap) : SampleCount(snap[j]) > 0 /\ snap[j] \in Live
  /\ \E w \in Live : SampleCount(w) = 0 /\ w.id \notin SnapIds

\* C18: a produce step whose mixing section finds active_sounds empty runs
\* no removal section and yields required_frames * channels zeros; the list
\* stays empty but for voices appended during the step, which are kept,
\* unmixed, for the next step.
C18_IdleSilence ==
  (snap = << >> /\ apc \in {"rm_lock", "rm", "clip", "yield"}) =>
    /\ apc \in {"clip", "yield"}
    /\ \A w \in Live : w.pos = 0 /\ played[w.id] = << >>
    /\ apc = "yield" => out = [i \in 1..Want |-> 0]

\* An idle step after earlier playback: silence, and a voice appended during
\* the step is in the list.
C18_Witness ==
  /\ apc = "yield"
  /\ snap = << >>
  /\ Want > 0
  /\ out = [i \in 1..Want |-> 0]
  /\ \E v \in removed : SampleCount(v) > 0
  /\ Len(active_sounds) = 1

MarkedIds == {remove_list[j].id : j \in 1..Len(remove_list)}

\* When the removal section is over, the voices of the step gone from the
\* list are the marked ones and the unfinished ones are all there.
C19_State ==
  apc \in {"clip", "yield"} =>
    /\ \A r \in SetOf(remove_list) :
         /\ r.pos = SampleCount(r)
         /\ \E v \in removed : v.id = r.id
         /\ \A w \in Live : w.id # r.id
    /\ {w.id : w \in Live} \cap SnapIds = SnapIds \ MarkedIds

\* One iteration of the removal loop takes exactly one entry out, a marked
\* one at its end (so never a voice appended since the mixing section).
C19_Step ==
  (apc = "rm" /\ ridx' = ridx + 1) =>
    /\ Len(active_sounds') = Len(active_sounds) - 1
    /\ \E v \in removed' \ removed :
         /\ removed' = removed \cup {v}
         /\ v.id \in MarkedIds
         /\ v.pos = SampleCount(v)

\* C19: the removal section removes exactly as many entries as the mixing
\* section marked, every one of them with pos = len(samples), also when
\* several voices compare equal and when enqueue_sound ran between the two
\* sections; the unfinished voices and the voices appended in between stay.
C19_RemovalExact == []C19_State /\ [][C19_Step]_vars

\* The removal section took out two marked voices that compare equal while a
\* voice equal to them, appended between the sections, stays in the list.
C19_Witness ==
  /\ apc = "clip"
  /\ Len(remove_list) = 2
  /\ VoiceEq(remove_list[1], remove_list[2])
  /\ Len(active_sounds) = 1
  /\ active_sounds[1].id \notin SnapIds
  /\ VoiceEq(active_sounds[1], remove_list[1])

\* C20: the locking is deadlock-free: the holder of active_lock is always
\* inside one of the three `with active_lock:` blocks, never at a lock entry,
\* and can take its next step; and in every state an event thread or the
\* audio thread can take a step.
C20_DeadlockFree ==
  /\ \A t \in Threads :
       active_lock = Event(t) =>
         epc[t] \in {"append", "unlock"} /\ ENABLED EventStep(t)
  /\ active_lock = Audio => apc \in {"mix", "rm"} /\ ENABLED AudioStep
  /\ (\E t \in Threads : ENABLED EventStep(t)) \/ ENABLED AudioStep

\* Full contention: one event thread holds the lock, the other event thread
\* and the audio thread both wait at their lock entries.
C20_Witness ==
  /\ apc = "mix_lock"
  /\ \E t, u \in Threads :
       /\ t # u
       /\ active_lock = Event(t) /\ epc[t] = "unlock"
       /\ epc[u] = "lock"

====
